---------------------------- MODULE Spec2Model ----------------------------
(***************************************************************************)
(* Model of the image preprocessing stage:                                 *)
(*   - GaussianBlurFilter (filter_convolution_algorithms/gaussian_blur):   *)
(*     kernel generation, the constructor, applyConvolution and            *)
(*     applySeparableConvolution, driven as its main() drives them;        *)
(*   - ImagePreprocessor and main() of preprocess.cpp: the command line,   *)
(*     assessImageQuality's decision logic and processImage's dispatch.    *)
(*                                                                         *)
(* Arithmetic.  The code computes in double and float.  The model computes *)
(* the same sums exactly, in reduced fractions [n, d]; the fraction with   *)
(* d = 0 stands for NaN and propagates as NaN does.  sigma is carried as   *)
(* an integer code s: sigma(s) = sgn(s) / sqrt(2 ln(|s| + 1)) for s # 0    *)
(* and sigma(0) = 0, so that exp(-k / (2 sigma^2)) = (|s| + 1)^(-k) is a   *)
(* rational the model can hold exactly.  Floating-point rounding error is  *)
(* far below FloatTol; it matters only where a result is rounded to an     *)
(* integer, and there the model allows both neighbours whenever the exact  *)
(* value is within FloatTol of a half.                                     *)
(***************************************************************************)
EXTENDS Integers, Sequences, FiniteSets, TLC

\* ------------------------------------------------------------------ bounds
\* Largest kernel size offered to the constructor (sizes -MaxSize..MaxSize).
MaxSize == 5
\* Largest image dimension (rows and cols range over 0..MaxDim).
MaxDim == 5
\* 1 / FloatTolDen bounds the accumulated floating-point error of one pixel.
FloatTolDen == 16384

\* --------------------------------------------------------------- fractions
Abs(x) == IF x < 0 THEN 0 - x ELSE x

RECURSIVE GCD(_, _)
GCD(a, b) == IF b = 0 THEN a ELSE GCD(b, a % b)

LCM(a, b) == (a \div GCD(a, b)) * b

RECURSIVE Pow(_, _)
Pow(b, k) == IF k = 0 THEN 1 ELSE b * Pow(b, k - 1)

NaN == [n |-> 0, d |-> 0]
IsNaN(f) == f.d = 0
Frac(n, d) == LET g == GCD(Abs(n), d) IN [n |-> n \div g, d |-> d \div g]
Zero == [n |-> 0, d |-> 1]
One == [n |-> 1, d |-> 1]
FInt(k) == [n |-> k, d |-> 1]

FAdd(a, b) ==
    IF IsNaN(a) \/ IsNaN(b) THEN NaN
    ELSE LET l == LCM(a.d, b.d)
         IN  Frac(a.n * (l \div a.d) + b.n * (l \div b.d), l)

FMul(a, b) ==
    IF IsNaN(a) \/ IsNaN(b) THEN NaN
    ELSE LET g1 == GCD(Abs(a.n), b.d)
             g2 == GCD(Abs(b.n), a.d)
         IN  [n |-> (a.n \div g1) * (b.n \div g2),
              d |-> (a.d \div g2) * (b.d \div g1)]

\* a / b in IEEE arithmetic for b >= 0: x / NaN = NaN, 0 / 0 = NaN.
FDiv(a, b) ==
    IF IsNaN(a) \/ IsNaN(b) \/ b.n = 0 THEN NaN
    ELSE FMul(a, [n |-> b.d, d |-> b.n])

\* C++ integer remainder: the quotient truncates toward zero, so the
\* remainder takes the sign of the dividend (-3 % 2 = -1).
CppRem(a, b) == IF a >= 0 THEN a % b ELSE 0 - ((0 - a) % b)

\* ------------------------------------------------------------------ sigma
SigmaVals == {-1, 0, 1, 2, 3}
SigmaBase(s) == Abs(s) + 1

\* exp(-k / (2.0 * sigma * sigma)) for an integer k >= 0.  sigma * sigma
\* loses the sign of sigma.  With sigma = 0 the quotient is -0/0 = NaN for
\* k = 0 and -inf for k > 0, and exp(-inf) = 0.
ExpNeg(k, s) ==
    IF s = 0 THEN (IF k = 0 THEN NaN ELSE Zero)
    ELSE [n |-> 1, d |-> Pow(SigmaBase(s), k)]

\* 1.0 / (2.0 * M_PI * sigma * sigma) times v.  The factor is a positive
\* constant c for sigma # 0, and values are held in units of c; for
\* sigma = 0 it is +inf, and inf * 0 = inf * NaN = NaN.
Prefactor(s, v) == IF s = 0 THEN NaN ELSE v

\* --------------------------------------------------------- kernel generation
RECURSIVE SumCells(_, _, _)
\* sum += value over the cells in loop order (row-major), cells 0..n-1.
SumCells(vals, size, n) ==
    IF n = 0 THEN Zero
    ELSE FAdd(SumCells(vals, size, n - 1),
              vals[(n - 1) \div size][(n - 1) % size])

\* The kernel with each cell divided by the sum accumulated so far.
generateGaussianKernel_RunningSum(size, s) ==
    LET center == size \div 2
        vals == [i \in 0 .. size - 1 |-> [j \in 0 .. size - 1 |->
                    Prefactor(s, ExpNeg((i - center) * (i - center)
                                        + (j - center) * (j - center), s))]]
    IN  [i \in 0 .. size - 1 |-> [j \in 0 .. size - 1 |->
            FDiv(vals[i][j], SumCells(vals, size, i * size + j + 1))]]

\* The kernel without its normalization loop.
generateGaussianKernel_NoNormalize(size, s) ==
    LET center == size \div 2
    IN  [i \in 0 .. size - 1 |-> [j \in 0 .. size - 1 |->
            Prefactor(s, ExpNeg((i - center) * (i - center)
                                + (j - center) * (j - center), s))]]

generateGaussianKernel(size, s) ==
    LET center == size \div 2
        vals == [i \in 0 .. size - 1 |-> [j \in 0 .. size - 1 |->
                    Prefactor(s, ExpNeg((i - center) * (i - center)
                                        + (j - center) * (j - center), s))]]
        sum == SumCells(vals, size, size * size)
    IN  [i \in 0 .. size - 1 |-> [j \in 0 .. size - 1 |-> FDiv(vals[i][j], sum)]]


generateKernel1D_Unnormalized(size, s) ==
    LET center == size \div 2
    IN  [i \in 0 .. size - 1 |-> ExpNeg((i - center) * (i - center), s)]

RECURSIVE SumVec(_, _)
SumVec(vals, n) == IF n = 0 THEN Zero ELSE FAdd(SumVec(vals, n - 1), vals[n - 1])

\* The 1-D kernel applySeparableConvolution derives on every call.
generateKernel1D(size, s) ==
    LET center == size \div 2
        vals == [i \in 0 .. size - 1 |-> ExpNeg((i - center) * (i - center), s)]
        sum == SumVec(vals, size)
    IN  [i \in 0 .. size - 1 |-> FDiv(vals[i], sum)]

\* ------------------------------------------------------------------ images
\* A cv::Mat of 8-bit samples: data[i][j] is the tuple of the pixel's samples.
\* The images offered: constant white, a checkerboard, two varied ones, and
\* two dim pixels in a black image.
Patterns == {"white", "checker", "ramp", "mixed", "dots"}

PixVal(p, i, j, k) ==
    CASE p = "white" -> 255
      [] p = "checker" -> IF (i + j) % 2 = 0 THEN 255 ELSE 0
      [] p = "ramp" -> (i * 97 + j * 41 + k * 29 + 13) % 256
      [] p = "dots" -> IF i = 0 /\ j = 0 THEN 1 ELSE IF i = 2 /\ j = 0 THEN 17 ELSE 0
      [] OTHER -> (i * i * 31 + j * 7 + i * j * 113 + k * 5) % 256

MkImage(r, c, ch, p) ==
    [rows |-> r, cols |-> c, channels |-> ch,
     data |-> [i \in 0 .. r - 1 |-> [j \in 0 .. c - 1 |->
                 [k \in 1 .. ch |-> PixVal(p, i, j, k - 1)]]]]

\* The Mat a default-constructed cv::Mat or a failed imread holds.
EmptyMat == [rows |-> 0, cols |-> 0, channels |-> 1, data |-> <<>>]

Images ==
    {MkImage(r, c, ch, p) : r \in 1 .. MaxDim, c \in 1 .. MaxDim,
                            ch \in {1, 3}, p \in Patterns}
    \cup {EmptyMat}

\* cv::Mat::empty()
empty(m) == m.rows = 0 \/ m.cols = 0

\* cv::cvtColor(input, gray, COLOR_BGR2GRAY) on 8-bit samples <<b, g, r>>:
\* fixed-point luma, (b*1868 + g*9617 + r*4899 + 2^13) >> 14.
cvtColorBGR2GRAY(px) ==
    (px[1] * 1868 + px[2] * 9617 + px[3] * 4899 + 8192) \div 16384

\* The first sample of every pixel, whatever the channel count.
GrayInput_FirstChannel(m) ==
    [i \in 0 .. m.rows - 1 |-> [j \in 0 .. m.cols - 1 |-> m.data[i][j][1]]]

\* grayInput: the converted image for 3 channels, a clone otherwise.
GrayInput(m) ==
    [i \in 0 .. m.rows - 1 |-> [j \in 0 .. m.cols - 1 |->
        IF m.channels = 3 THEN cvtColorBGR2GRAY(m.data[i][j])
        ELSE m.data[i][j][1]]]

\* --------------------------------------------------------- 8-bit conversion
SaturateU8(v) == IF v < 0 THEN 0 ELSE IF v > 255 THEN 255 ELSE v

\* Mat::convertTo(result, CV_8U) of one float: saturate_cast<uchar>(cvRound(v)),
\* and cvRound rounds to nearest, ties to even.  cvRound(NaN) is INT_MIN on
\* x86 and 0 on ARM; both saturate to 0.
Floor(f) == f.n \div f.d
IsTie(f) == 2 * (f.n - Floor(f) * f.d) = f.d
NearHalf(f) ==
    LET rem == f.n - Floor(f) * f.d
    IN  Abs(2 * rem - f.d) <= (2 * f.d) \div FloatTolDen
Nearest(f) ==
    LET rem == f.n - Floor(f) * f.d
    IN  IF 2 * rem < f.d THEN Floor(f)
        ELSE IF 2 * rem > f.d THEN Floor(f) + 1
        ELSE IF Floor(f) % 2 = 0 THEN Floor(f) ELSE Floor(f) + 1

\* A value a float holds exactly: a dyadic fraction (all values here are
\* below 2^8 with denominators far below 2^16).
RECURSIVE IsPow2(_)
IsPow2(d) == d = 1 \/ (d > 1 /\ d % 2 = 0 /\ IsPow2(d \div 2))
FloatExact(f) == IsNaN(f) \/ IsPow2(f.d)

\* The value stored for the float nearest the exact value f.  When f is
\* within FloatTol of a half and the computed float need not be f itself,
\* the rounding error decides the direction: up says which.
ConvertTo8U_Truncate(f, decided, up) ==
    IF IsNaN(f) THEN 0 ELSE SaturateU8(Floor(f))

ConvertTo8U(f, decided, up) ==
    IF IsNaN(f) THEN 0
    ELSE IF NearHalf(f) /\ ~decided
         THEN SaturateU8(IF up THEN Floor(f) + 1 ELSE Floor(f))
    ELSE SaturateU8(Nearest(f))

\* -------------------------------------------------------------- convolution
\* floatInput: grayInput.convertTo(floatInput, CV_32F) is exact on 0..255.
RECURSIVE Acc2D(_, _, _, _, _, _)
\* The kernel loops of applyConvolution at pixel (i, j), cells 0..n-1 in loop
\* order: sum += floatInput(row, col) * kernel[ki][kj].
Acc2D(gray, kern, size, i, j, n) ==
    IF n = 0 THEN Zero
    ELSE LET ki == (n - 1) \div size
             kj == (n - 1) % size
             row == i - (size \div 2) + ki
             col == j - (size \div 2) + kj
         IN  FAdd(Acc2D(gray, kern, size, i, j, n - 1),
                  FMul(FInt(gray[row][col]), kern[ki][kj]))

Output2D_CloneInput(gray, rows, cols, kern, size) ==
    LET padding == size \div 2
    IN  [i \in 0 .. rows - 1 |-> [j \in 0 .. cols - 1 |->
            IF /\ padding <= i /\ i < rows - padding
               /\ padding <= j /\ j < cols - padding
            THEN Acc2D(gray, kern, size, i, j, size * size)
            ELSE FInt(gray[i][j])]]

\* The float buffer `output` of applyConvolution: zeros, then the interior.
Output2D(gray, rows, cols, kern, size) ==
    LET padding == size \div 2
    IN  [i \in 0 .. rows - 1 |-> [j \in 0 .. cols - 1 |->
            IF /\ padding <= i /\ i < rows - padding
               /\ padding <= j /\ j < cols - padding
            THEN Acc2D(gray, kern, size, i, j, size * size)
            ELSE Zero]]

RECURSIVE AccRow(_, _, _, _, _, _)
\* First pass at (i, j): sum += floatInput(i, col) * kernel1D[k].
AccRow(gray, k1, size, i, j, n) ==
    IF n = 0 THEN Zero
    ELSE FAdd(AccRow(gray, k1, size, i, j, n - 1),
              FMul(FInt(gray[i][j - (size \div 2) + (n - 1)]), k1[n - 1]))

\* A first pass that skips the top and bottom border rows.
TempBuffer_InteriorRows(gray, rows, cols, k1, size) ==
    LET padding == size \div 2
    IN  [i \in 0 .. rows - 1 |-> [j \in 0 .. cols - 1 |->
            IF /\ padding <= i /\ i < rows - padding
               /\ padding <= j /\ j < cols - padding
            THEN AccRow(gray, k1, size, i, j, size)
            ELSE Zero]]

\* The float buffer `temp`: zeros, then every row at the interior columns.
TempBuffer(gray, rows, cols, k1, size) ==
    LET padding == size \div 2
    IN  [i \in 0 .. rows - 1 |-> [j \in 0 .. cols - 1 |->
            IF padding <= j /\ j < cols - padding
            THEN AccRow(gray, k1, size, i, j, size)
            ELSE Zero]]

RECURSIVE AccCol(_, _, _, _, _, _)
\* Second pass at (i, j): sum += temp(row, j) * kernel1D[k].
AccCol(temp, k1, size, i, j, n) ==
    IF n = 0 THEN Zero
    ELSE FAdd(AccCol(temp, k1, size, i, j, n - 1),
              FMul(temp[i - (size \div 2) + (n - 1)][j], k1[n - 1]))

\* The float buffer `output` of applySeparableConvolution: zeros, then every
\* column (border columns included) at the interior rows.
OutputSep(temp, rows, cols, k1, size) ==
    LET padding == size \div 2
    IN  [i \in 0 .. rows - 1 |-> [j \in 0 .. cols - 1 |->
            IF padding <= i /\ i < rows - padding
            THEN AccCol(temp, k1, size, i, j, size)
            ELSE Zero]]

\* The elements the loops of applyConvolution index with at<float>: those of
\* floatInput read by the kernel loops and those of output written, for
\* every (i, j) the two outer loops visit.
Touched2D_FromZero(rows, cols, size) ==
    LET padding == size \div 2
    IN  UNION {{<<"floatInput", i - padding + ki, j - padding + kj>> :
                    ki \in 0 .. size - 1, kj \in 0 .. size - 1}
               \cup {<<"output", i, j>>} :
               i \in 0 .. rows - 1, j \in 0 .. cols - 1}

Touched2D(rows, cols, size) ==
    LET padding == size \div 2
    IN  UNION {{<<"floatInput", i - padding + ki, j - padding + kj>> :
                    ki \in 0 .. size - 1, kj \in 0 .. size - 1}
               \cup {<<"output", i, j>>} :
               i \in padding .. rows - padding - 1,
               j \in padding .. cols - padding - 1}

\* The elements the two passes of applySeparableConvolution index: the first
\* reads floatInput and writes temp, the second reads temp and writes output.
TouchedSep(rows, cols, size) ==
    LET padding == size \div 2
    IN  UNION {{<<"floatInput", i, j - padding + k>> : k \in 0 .. size - 1}
               \cup {<<"temp", i, j>>} :
               i \in 0 .. rows - 1, j \in padding .. cols - padding - 1}
        \cup
        UNION {{<<"temp", i - padding + k, j>> : k \in 0 .. size - 1}
               \cup {<<"output", i, j>>} :
               i \in padding .. rows - padding - 1, j \in 0 .. cols - 1}

\* static_cast<float>(sum) in applyConvolution: the double sum carries an
\* error far below a float's spacing, so the cast yields the exact value
\* whenever a float holds it, as it holds every tie k + 1/2.
Decided2D(out, i, j) == IsTie(out[i][j])

\* In applySeparableConvolution the second pass sums floats of temp: its
\* result is the exact value only if the temp values it read were exact.
DecidedSep(out, temp, rows, size, i, j) ==
    /\ IsTie(out[i][j])
    /\ LET padding == size \div 2
       IN  (padding <= i /\ i < rows - padding) =>
               \A k \in 0 .. size - 1 : FloatExact(temp[i - padding + k][j])

\* Pixels whose rounding the floating-point error decides.
Ambiguous2D(out, rows, cols) ==
    {p \in (0 .. rows - 1) \X (0 .. cols - 1) :
        /\ ~IsNaN(out[p[1]][p[2]])
        /\ NearHalf(out[p[1]][p[2]])
        /\ ~Decided2D(out, p[1], p[2])}

AmbiguousSep(out, temp, rows, cols, size) ==
    {p \in (0 .. rows - 1) \X (0 .. cols - 1) :
        /\ ~IsNaN(out[p[1]][p[2]])
        /\ NearHalf(out[p[1]][p[2]])
        /\ ~DecidedSep(out, temp, rows, size, p[1], p[2])}

\* output.convertTo(result, CV_8U): a single-channel 8-bit Mat.  amb are the
\* pixels the rounding error decides, ups those of them it rounds up.
ConvertMat(out, rows, cols, amb, ups) ==
    [rows |-> rows, cols |-> cols, channels |-> 1,
     data |-> [i \in 0 .. rows - 1 |-> [j \in 0 .. cols - 1 |->
                 <<ConvertTo8U(out[i][j], <<i, j>> \notin amb, <<i, j>> \in ups)>>]]]

\* ------------------------------------------------------------------- state
VARIABLES
    gpc,         \* the GaussianBlurFilter object: "new", "ready", "failed"
    ctorError,   \* what the constructor threw: "none" or an exception name
    kernelSize,  \* GaussianBlurFilter::kernelSize
    sigma,       \* GaussianBlurFilter::sigma (its integer code)
    kernel,      \* GaussianBlurFilter::kernel
    input,       \* the image the caller holds and passes to both functions
    out2d,       \* the last applyConvolution(input): its outcome and steps
    outSep,      \* the last applySeparableConvolution(input)
    observed     \* what the latest printKernel / getter call showed its caller

gvars == <<gpc, ctorError, kernelSize, sigma, kernel, input, out2d, outSep,
           observed>>

VARIABLES
    mpc,            \* where main() is: "init", "parsed", "loaded", "selected",
                    \* "processed", "exit"; "api" after a direct processImage
    argc,           \* main's argc
    argv,           \* main's argv beyond the two paths: argv[3], argv[4]
    filterStr,      \* main's filterStr
    autoAssess,     \* main's autoAssess
    img,            \* the decoded image: its shape, or EmptyShape
    metrics,        \* what assessImageQuality measured, or NoMetrics
    selectedFilter, \* main's selectedFilter, "unset" before it is assigned
    processed,      \* what processImage did: a returned image or an exception
    exitCode,       \* main's return value, -1 while it runs
    events,         \* the steps taken so far, in order
    routine         \* the filter routine processImage called, and what it uses

mvars == <<mpc, argc, argv, filterStr, autoAssess, img, metrics, selectedFilter,
           processed, exitCode, events, routine>>

VARIABLES
    ppc,      \* a filter routine's progress: "idle", "prepared", "parallel",
              \* "joined", "returned", "crashed"
    pfilter,  \* the FilterType whose routine runs, "none" before
    psrc,     \* the routine's img argument
    paux,     \* the buffer computed before the loop that the loop body reads
    powner,   \* the worker each loop iteration is assigned to
    pstep,    \* per iteration: how many of its steps have run
    plocal,   \* per iteration: what its first step left in the worker's locals
    pdest,    \* the destination buffer, per iteration's row, pixel or channel
    pshared,  \* the cv::CLAHE object's lut_ member
    paccess,  \* the memory accesses made inside the parallel region
    presult,  \* the image the routine returns
    pevents   \* what the calling thread did, in order

pvars == <<ppc, pfilter, psrc, paux, powner, pstep, plocal, pdest, pshared,
           paccess, presult, pevents>>

VARIABLES
    aobjs,   \* the ImagePreprocessor objects constructed: each one's verbose
    acalls   \* the assessImageQuality calls made so far, in order

avars == <<aobjs, acalls>>

VARIABLES
    spc,      \* where `pipeline.sh setup` is: "idle", "check", "build",
              \* "install", "complete", "exit"
    senv,     \* the machine the script runs on: tools present, make results
    sout,     \* the commands run and the messages printed, in order
    sstatus   \* the script's exit status, -1 while it runs

svars == <<spc, senv, sout, sstatus>>

vars == <<gvars, mvars, pvars, avars, svars>>

NoCall ==
    [status |-> "none", steps |-> <<>>, temp |-> <<>>, result |-> EmptyMat,
     touched |-> {}]
Thrown(e) ==
    [status |-> e, steps |-> <<>>, temp |-> <<>>, result |-> EmptyMat,
     touched |-> {}]

NoObservation == [call |-> "none", value |-> <<>>]

SizeVals == (0 - MaxSize) .. MaxSize

\* What std::vector<double>(size) throws for a negative int size, which
\* converts to a size_t above max_size(): std::length_error, or
\* std::bad_alloc from a library that does not check the length first.
VectorSizeErrors == {"length_error", "bad_alloc"}

InitGauss ==
    /\ gpc = "new"
    /\ ctorError = "none"
    /\ kernelSize = 0
    /\ sigma = 0
    /\ kernel = <<>>
    /\ input = EmptyMat
    /\ out2d = NoCall
    /\ outSep = NoCall
    /\ observed = NoObservation

\* The constructor's test: size % 2 == 0 throws std::invalid_argument.
SizeRejected(size) == CppRem(size, 2) = 0

\* GaussianBlurFilter::GaussianBlurFilter(size, sigma)
Construct(size, s) ==
    /\ gpc = "new"
    /\ kernelSize' = size
    /\ sigma' = s
    /\ IF SizeRejected(size)
       THEN /\ ctorError' = "invalid_argument"
            /\ gpc' = "failed"
            /\ kernel' = <<>>
       ELSE IF size < 0
       THEN /\ ctorError' \in VectorSizeErrors
            /\ gpc' = "failed"
            /\ kernel' = <<>>
       ELSE /\ ctorError' = "none"
            /\ gpc' = "ready"
            /\ kernel' = generateGaussianKernel(size, s)
    /\ UNCHANGED <<input, out2d, outSep, observed>>
    /\ UNCHANGED <<mvars, pvars, avars, svars>>

\* The caller obtains an image (imread, or a synthetic one), as main() does:
\* first, and again once both functions have run on the one it holds.
TakeImage(m) ==
    /\ gpc = "ready"
    /\ input = EmptyMat \/ (out2d.status # "none" /\ outSep.status # "none")
    /\ input' = m
    /\ out2d' = NoCall
    /\ outSep' = NoCall
    /\ UNCHANGED <<gpc, ctorError, kernelSize, sigma, kernel, observed>>
    /\ UNCHANGED <<mvars, pvars, avars, svars>>

RejectsInput2D_Never(m) == FALSE

\* applyConvolution's guard on the input.
RejectsInput2D(m) == empty(m)

\* GaussianBlurFilter::applyConvolution(input)
ApplyConvolution ==
    /\ gpc = "ready"
    /\ out2d.status = "none"
    /\ IF RejectsInput2D(input)
       THEN out2d' = Thrown("invalid_argument")
       ELSE LET gray == GrayInput(input)
                out == Output2D(gray, input.rows, input.cols, kernel, kernelSize)
                amb == Ambiguous2D(out, input.rows, input.cols)
            IN  \E ups \in SUBSET amb :
                    out2d' = [status |-> "ok",
                              steps |-> <<"gray", "convolve", "convert">>,
                              temp |-> <<>>,
                              touched |-> Touched2D(input.rows, input.cols,
                                                    kernelSize),
                              result |-> ConvertMat(out, input.rows, input.cols,
                                                    amb, ups)]
    /\ UNCHANGED <<gpc, ctorError, kernelSize, sigma, kernel, input, outSep,
                   observed>>
    /\ UNCHANGED <<mvars, pvars, avars, svars>>

\* applySeparableConvolution's guard on the input.
RejectsInputSep(m) == empty(m)

\* The 1-D kernel written over every row of the member kernel.
KernelAfterSeparable_Stored(kern, k1) ==
    [i \in DOMAIN kern |-> [j \in DOMAIN kern[i] |-> k1[j]]]

\* The member kernel after applySeparableConvolution derived kernel1D: the
\* 1-D kernel is a local vector of the call, the member is not assigned.
KernelAfterSeparable(kern, k1) == kern

\* GaussianBlurFilter::applySeparableConvolution(input)
ApplySeparableConvolution ==
    /\ gpc = "ready"
    /\ outSep.status = "none"
    /\ IF RejectsInputSep(input)
       THEN outSep' = Thrown("invalid_argument") /\ UNCHANGED kernel
       ELSE LET gray == GrayInput(input)
                k1 == generateKernel1D(kernelSize, sigma)
                temp == TempBuffer(gray, input.rows, input.cols, k1, kernelSize)
                out == OutputSep(temp, input.rows, input.cols, k1, kernelSize)
                amb == AmbiguousSep(out, temp, input.rows, input.cols, kernelSize)
            IN  /\ kernel' = KernelAfterSeparable(kernel, k1)
                /\ \E ups \in SUBSET amb :
                    outSep' = [status |-> "ok",
                               steps |-> <<"gray", "kernel1D", "horizontal",
                                           "vertical", "convert">>,
                               temp |-> temp,
                               touched |-> TouchedSep(input.rows, input.cols,
                                                      kernelSize),
                               result |-> ConvertMat(out, input.rows, input.cols,
                                                     amb, ups)]
    /\ UNCHANGED <<gpc, ctorError, kernelSize, sigma, input, out2d, observed>>
    /\ UNCHANGED <<mvars, pvars, avars, svars>>

\* GaussianBlurFilter::printKernel(): writes kernelSize, sigma and every
\* weight to std::cout.
PrintKernel ==
    /\ gpc = "ready"
    /\ observed' = [call |-> "printKernel", value |-> <<kernelSize, sigma, kernel>>]
    /\ UNCHANGED <<gpc, ctorError, kernelSize, sigma, kernel, input, out2d, outSep>>
    /\ UNCHANGED <<mvars, pvars, avars, svars>>

\* GaussianBlurFilter::getKernelSize() const
GetKernelSize ==
    /\ gpc = "ready"
    /\ observed' = [call |-> "getKernelSize", value |-> <<kernelSize>>]
    /\ UNCHANGED <<gpc, ctorError, kernelSize, sigma, kernel, input, out2d, outSep>>
    /\ UNCHANGED <<mvars, pvars, avars, svars>>

\* GaussianBlurFilter::getSigma() const
GetSigma ==
    /\ gpc = "ready"
    /\ observed' = [call |-> "getSigma", value |-> <<sigma>>]
    /\ UNCHANGED <<gpc, ctorError, kernelSize, sigma, kernel, input, out2d, outSep>>
    /\ UNCHANGED <<mvars, pvars, avars, svars>>

\* Largest image dimension offered to a filter whose methods are called in
\* any order.
MaxApiDim == 3
ApiImages == {m \in Images : m.rows <= MaxApiDim /\ m.cols <= MaxApiDim}

\* A caller holding a filter passes it another image at any time.
PassImage(m) ==
    /\ gpc = "ready"
    /\ input' = m
    /\ out2d' = NoCall
    /\ outSep' = NoCall
    /\ UNCHANGED <<gpc, ctorError, kernelSize, sigma, kernel, observed>>
    /\ UNCHANGED <<mvars, pvars, avars, svars>>

\* --------------------------------------------------------- preprocess.cpp
FilterTypes == {"GAUSSIAN_BLUR", "UNSHARP_MASK", "LAPLACIAN_SHARPEN",
                "BILATERAL_DENOISE", "CLAHE_ENHANCE", "EDGE_ENHANCE"}

\* Command-line words: the documented names and one that is none of them.
ArgWords == {"auto", "blur", "sharpen", "laplacian", "denoise", "clahe",
             "edge", "foo"}
MaxArgc == 5

EmptyShape == [rows |-> 0, cols |-> 0, channels |-> 0]
Shape(r, c, ch) == [rows |-> r, cols |-> c, channels |-> ch]
\* cv::imread(in, cv::IMREAD_COLOR) always yields 3 channels.
DecodedShapes == {Shape(r, c, 3) : r \in {1, MaxDim}, c \in {1, MaxDim}}
\* A caller of processImage may hold a grayscale Mat as well.
CallerShapes == {Shape(r, c, ch) : r \in {1, MaxDim}, c \in {1, MaxDim}, ch \in {1, 3}}

\* Metrics are doubles; the model holds them in units of 1 / MetricScale.
MetricScale == 2
BlurThreshold == 100
NoiseThreshold == 15
DarkThreshold == 50
BrightThreshold == 200

Around(t) == {t * MetricScale - 1, t * MetricScale, t * MetricScale + 1}
BlurVals == {0, 300 * MetricScale} \cup Around(BlurThreshold)
NoiseVals == {0, 40 * MetricScale} \cup Around(NoiseThreshold)
BrightnessVals == {10 * MetricScale, 128 * MetricScale, 230 * MetricScale}
                  \cup Around(DarkThreshold) \cup Around(BrightThreshold)
MetricTriples == [blurVariance : BlurVals, brightness : BrightnessVals,
                  noiseLevel : NoiseVals]
NoMetrics == [blurVariance |-> -1, brightness |-> -1, noiseLevel |-> -1]

Decide_NonStrict(m) ==
    IF m.blurVariance <= BlurThreshold * MetricScale THEN "UNSHARP_MASK"
    ELSE IF m.noiseLevel >= NoiseThreshold * MetricScale THEN "BILATERAL_DENOISE"
    ELSE IF \/ m.brightness <= DarkThreshold * MetricScale
            \/ m.brightness >= BrightThreshold * MetricScale THEN "CLAHE_ENHANCE"
    ELSE "EDGE_ENHANCE"

\* A policy whose last branch recommends Laplacian-Sharpen.
Decide_LaplacianLast(m) ==
    IF m.blurVariance < BlurThreshold * MetricScale THEN "UNSHARP_MASK"
    ELSE IF m.noiseLevel > NoiseThreshold * MetricScale THEN "BILATERAL_DENOISE"
    ELSE IF \/ m.brightness < DarkThreshold * MetricScale
            \/ m.brightness > BrightThreshold * MetricScale THEN "CLAHE_ENHANCE"
    ELSE "LAPLACIAN_SHARPEN"

Decide_BrightOnly(m) ==
    IF m.blurVariance < BlurThreshold * MetricScale THEN "UNSHARP_MASK"
    ELSE IF m.noiseLevel > NoiseThreshold * MetricScale THEN "BILATERAL_DENOISE"
    ELSE IF m.brightness > BrightThreshold * MetricScale THEN "CLAHE_ENHANCE"
    ELSE "EDGE_ENHANCE"

\* The decision logic of assessImageQuality.
Decide(m) ==
    IF m.blurVariance < BlurThreshold * MetricScale THEN "UNSHARP_MASK"
    ELSE IF m.noiseLevel > NoiseThreshold * MetricScale THEN "BILATERAL_DENOISE"
    ELSE IF \/ m.brightness < DarkThreshold * MetricScale
            \/ m.brightness > BrightThreshold * MetricScale THEN "CLAHE_ENHANCE"
    ELSE "EDGE_ENHANCE"

\* The manual selection chain of main().
ManualFilter(str) ==
    IF str = "blur" THEN "GAUSSIAN_BLUR"
    ELSE IF str = "sharpen" THEN "UNSHARP_MASK"
    ELSE IF str = "laplacian" THEN "LAPLACIAN_SHARPEN"
    ELSE IF str = "denoise" THEN "BILATERAL_DENOISE"
    ELSE IF str = "clahe" THEN "CLAHE_ENHANCE"
    ELSE IF str = "edge" THEN "EDGE_ENHANCE"
    ELSE "GAUSSIAN_BLUR"

Returned(r, c, ch) == [status |-> "ok", rows |-> r, cols |-> c, channels |-> ch]
Failed(e) == [status |-> e, rows |-> 0, cols |-> 0, channels |-> 0]
NotCalled == Failed("none")

\* result = img.clone(); every row is blurred into result.row(r).
applyGaussianBlur(m) == {Returned(m.rows, m.cols, m.channels)}

\* at<cv::Vec3f>(i, j) on a Mat that is not 3-channel reads and writes past
\* the pixel (undefined behaviour): the call may crash, or return the
\* converted clone with its memory overrun.
applyUnsharpMask(m) ==
    IF m.channels = 3 THEN {Returned(m.rows, m.cols, m.channels)}
    ELSE {Failed("crash"), Returned(m.rows, m.cols, m.channels)}

\* cv::cvtColor(img, gray, COLOR_BGR2GRAY) throws cv::Exception unless the
\* input has 3 or 4 channels.
applyLaplacianSharpen(m) ==
    IF m.channels = 3 THEN {Returned(m.rows, m.cols, m.channels)}
    ELSE {Failed("cv_exception")}

\* cv::split resizes the vector to the channel count; the loop then indexes
\* channels 0..2 whatever that count is (undefined behaviour below 3), and
\* the filter rejects the destroyed Mat inside the parallel region.
applyBilateralDenoise(m) ==
    IF m.channels = 3 THEN {Returned(m.rows, m.cols, 3)}
    ELSE {Failed("crash"), Failed("cv_exception")}

applyCLAHE(m) ==
    IF m.channels = 3 THEN {Returned(m.rows, m.cols, 3)}
    ELSE {Failed("crash"), Failed("cv_exception")}

applyEdgeEnhance(m) ==
    IF m.channels = 3 THEN {Returned(m.rows, m.cols, m.channels)}
    ELSE {Failed("cv_exception")}

\* The switch with the LAPLACIAN_SHARPEN case falling into UNSHARP_MASK's.
Dispatch_WrongCase(filter) ==
    CASE filter = "GAUSSIAN_BLUR" -> "applyGaussianBlur"
      [] filter = "UNSHARP_MASK" -> "applyUnsharpMask"
      [] filter = "LAPLACIAN_SHARPEN" -> "applyUnsharpMask"
      [] filter = "BILATERAL_DENOISE" -> "applyBilateralDenoise"
      [] filter = "CLAHE_ENHANCE" -> "applyCLAHE"
      [] filter = "EDGE_ENHANCE" -> "applyEdgeEnhance"
      [] OTHER -> "applyGaussianBlur"

\* The switch of processImage: the routine each FilterType is routed to.
Dispatch(filter) ==
    CASE filter = "GAUSSIAN_BLUR" -> "applyGaussianBlur"
      [] filter = "UNSHARP_MASK" -> "applyUnsharpMask"
      [] filter = "LAPLACIAN_SHARPEN" -> "applyLaplacianSharpen"
      [] filter = "BILATERAL_DENOISE" -> "applyBilateralDenoise"
      [] filter = "CLAHE_ENHANCE" -> "applyCLAHE"
      [] filter = "EDGE_ENHANCE" -> "applyEdgeEnhance"
      [] OTHER -> "applyGaussianBlur"

\* The image operations each routine's body invokes, in the order of its code.
Invokes(name) ==
    CASE name = "applyGaussianBlur" -> <<"cv::GaussianBlur">>
      [] name = "applyUnsharpMask" -> <<"cv::GaussianBlur", "cv::Mat::convertTo">>
      [] name = "applyLaplacianSharpen" ->
             <<"cv::cvtColor", "cv::Laplacian", "cv::convertScaleAbs">>
      [] name = "applyBilateralDenoise" ->
             <<"cv::split", "cv::bilateralFilter", "cv::merge">>
      [] name = "applyCLAHE" ->
             <<"cv::split", "cv::createCLAHE", "cv::CLAHE::apply", "cv::merge">>
      [] name = "applyEdgeEnhance" -> <<"cv::cvtColor", "cv::Canny">>

NoRoutine == [name |-> "none", invokes |-> <<>>]
Routine(name) == [name |-> name, invokes |-> Invokes(name)]

\* The outcomes of the routine called name on the image m.
RunRoutine(name, m) ==
    CASE name = "applyGaussianBlur" -> applyGaussianBlur(m)
      [] name = "applyUnsharpMask" -> applyUnsharpMask(m)
      [] name = "applyLaplacianSharpen" -> applyLaplacianSharpen(m)
      [] name = "applyBilateralDenoise" -> applyBilateralDenoise(m)
      [] name = "applyCLAHE" -> applyCLAHE(m)
      [] name = "applyEdgeEnhance" -> applyEdgeEnhance(m)

\* ImagePreprocessor::processImage(img, filter): the outcomes of the call.
processImage(m, filter) == RunRoutine(Dispatch(filter), m)

InitMain ==
    /\ mpc = "init"
    /\ argc = 0
    /\ argv = <<>>
    /\ filterStr = ""
    /\ autoAssess = FALSE
    /\ img = EmptyShape
    /\ metrics = NoMetrics
    /\ selectedFilter = "unset"
    /\ processed = NotCalled
    /\ exitCode = -1
    /\ events = <<>>
    /\ routine = NoRoutine

\* The words of the command line beyond the two paths, for argc = n.
Argv(n, a3, a4) == [k \in 3 .. n - 1 |-> IF k = 3 THEN a3 ELSE a4]

\* main() with an autoAssess that looks at argv[3] only.
ParseArgs_IgnoreFourth(n, a3, a4) ==
    /\ mpc = "init"
    /\ argc' = n
    /\ argv' = Argv(n, a3, a4)
    /\ IF n < 3
       THEN /\ exitCode' = 1
            /\ mpc' = "exit"
            /\ events' = Append(events, "usage")
            /\ UNCHANGED <<filterStr, autoAssess>>
       ELSE /\ filterStr' = (IF n > 3 THEN a3 ELSE "auto")
            /\ autoAssess' = (filterStr' = "auto")
            /\ mpc' = "parsed"
            /\ UNCHANGED <<exitCode, events>>
    /\ UNCHANGED <<img, metrics, selectedFilter, processed, routine>>
    /\ UNCHANGED <<gvars, pvars, avars, svars>>

\* main(): the argc test and the reading of argv (a3, a4 are argv[3], argv[4]).
ParseArgs(n, a3, a4) ==
    /\ mpc = "init"
    /\ argc' = n
    /\ argv' = Argv(n, a3, a4)
    /\ IF n < 3
       THEN /\ exitCode' = 1
            /\ mpc' = "exit"
            /\ events' = Append(events, "usage")
            /\ UNCHANGED <<filterStr, autoAssess>>
       ELSE /\ filterStr' = (IF n > 3 THEN a3 ELSE "auto")
            /\ autoAssess' = (filterStr' = "auto" \/ (n > 4 /\ a4 = "auto"))
            /\ mpc' = "parsed"
            /\ UNCHANGED <<exitCode, events>>
    /\ UNCHANGED <<img, metrics, selectedFilter, processed, routine>>
    /\ UNCHANGED <<gvars, pvars, avars, svars>>

\* cv::imread and the img.empty() test.
LoadImage(m) ==
    /\ mpc = "parsed"
    /\ img' = m
    /\ events' = Append(events, "decode")
    /\ IF m = EmptyShape
       THEN exitCode' = 1 /\ mpc' = "exit"
       ELSE mpc' = "loaded" /\ UNCHANGED exitCode
    /\ UNCHANGED <<argc, argv, filterStr, autoAssess, metrics, selectedFilter, processed,
                   routine>>
    /\ UNCHANGED <<gvars, pvars, avars, svars>>

\* The policy run again on the image after it was processed.
AssessQuality_Feedback(m) ==
    /\ mpc \in {"loaded", "processed"}
    /\ Len(events) < 8
    /\ autoAssess
    /\ metrics' = m
    /\ selectedFilter' = Decide(m)
    /\ events' = Append(events, "assess")
    /\ mpc' = "selected"
    /\ UNCHANGED <<argc, argv, filterStr, autoAssess, img, processed, exitCode, routine>>
    /\ UNCHANGED <<gvars, pvars, avars, svars>>

\* processor.assessImageQuality(img), for the metrics m the library measured.
AssessQuality(m) ==
    /\ mpc = "loaded"
    /\ autoAssess
    /\ metrics' = m
    /\ selectedFilter' = Decide(m)
    /\ events' = Append(events, "assess")
    /\ mpc' = "selected"
    /\ UNCHANGED <<argc, argv, filterStr, autoAssess, img, processed, exitCode, routine>>
    /\ UNCHANGED <<gvars, pvars, avars, svars>>

\* The manual filter selection of main().
SelectManual ==
    /\ mpc = "loaded"
    /\ ~autoAssess
    /\ selectedFilter' = ManualFilter(filterStr)
    /\ mpc' = "selected"
    /\ UNCHANGED <<argc, argv, filterStr, autoAssess, img, metrics, processed,
                   exitCode, events, routine>>
    /\ UNCHANGED <<gvars, pvars, avars, svars>>

\* The steps of one processImage call as the caller sees them: the routine is
\* entered, and its one `#pragma omp parallel for` loop forks the workers and
\* joins them before the routine returns.
ProcessSteps == <<"filter", "fork", "join">>

\* processor.processImage(img, selectedFilter) in main().
ProcessSelected ==
    /\ mpc = "selected"
    /\ processed' \in processImage(img, selectedFilter)
    /\ routine' = Routine(Dispatch(selectedFilter))
    /\ events' = events \o ProcessSteps
    /\ mpc' = "processed"
    /\ UNCHANGED <<argc, argv, filterStr, autoAssess, img, metrics, selectedFilter,
                   exitCode>>
    /\ UNCHANGED <<gvars, pvars, avars, svars>>

\* A main() that does not test what cv::imwrite returned.
SaveImage_Unchecked(ok) ==
    /\ mpc = "processed"
    /\ exitCode' = 0
    /\ events' = Append(events, IF ok THEN "encode" ELSE "encode_failed")
    /\ mpc' = "exit"
    /\ UNCHANGED <<argc, argv, filterStr, autoAssess, img, metrics, selectedFilter,
                   processed, routine>>
    /\ UNCHANGED <<gvars, pvars, avars, svars>>

\* cv::imwrite(out, processed) and main's return.
SaveImage(ok) ==
    /\ mpc = "processed"
    /\ IF ok
       THEN exitCode' = 0 /\ events' = Append(events, "encode")
       ELSE exitCode' = 1 /\ events' = Append(events, "encode_failed")
    /\ mpc' = "exit"
    /\ UNCHANGED <<argc, argv, filterStr, autoAssess, img, metrics, selectedFilter,
                   processed, routine>>
    /\ UNCHANGED <<gvars, pvars, avars, svars>>

\* A caller other than main() invokes processImage(m, filter) directly.
CallProcessImage(m, filter) ==
    /\ mpc = "init"
    /\ img' = m
    /\ selectedFilter' = filter
    /\ processed' \in processImage(m, filter)
    /\ routine' = Routine(Dispatch(filter))
    /\ events' = events \o ProcessSteps
    /\ mpc' = "api"
    /\ UNCHANGED <<argc, argv, filterStr, autoAssess, metrics, exitCode>>
    /\ UNCHANGED <<gvars, pvars, avars, svars>>

\* ------------------------------------------------------- parallel regions
\* The six filter routines of ImagePreprocessor, each with one
\* `#pragma omp parallel for` loop.  The calling thread prepares the buffers,
\* forks the workers, waits at the loop's implicit barrier, finishes and
\* returns.  Inside the region the steps of different workers interleave
\* freely.

\* Largest image (rows x cols, 3 channels) given to a routine.
MaxParRows == 3
MaxParCols == 2
\* Number of OpenMP worker threads.
ParWorkers == 2

\* The inputs of a routine: the decoded image, and which of two contents the
\* buffer the library computes before the loop has.
ParInputs ==
    {<<MkImage(r, c, 3, pa[1]), pa[2]>> :
        r \in {1, MaxParRows}, c \in {1, MaxParCols},
        pa \in {<<"ramp", "low">>, <<"checker", "high">>}}

RowFilters == {"GAUSSIAN_BLUR"}
PixelFilters == {"UNSHARP_MASK", "LAPLACIAN_SHARPEN", "EDGE_ENHANCE"}
ChannelFilters == {"BILATERAL_DENOISE", "CLAHE_ENHANCE"}

\* The iterations of the routine's loop: rows, pixels (collapse(2) numbers
\* pixel (i, j) as i * cols + j), or the three channels.
Iterations(f, m) ==
    IF f \in RowFilters THEN 0 .. m.rows - 1
    ELSE IF f \in PixelFilters THEN 0 .. m.rows * m.cols - 1
    ELSE 0 .. 2

\* Steps of one iteration.  A row or channel iteration is a library call
\* that reads its source, then writes its destination (CLAHE::apply: builds
\* the lookup tables, then interpolates through them); a pixel iteration
\* reads its pixel and stores the new one in one step.
StepsOf(f) == IF f \in PixelFilters THEN 1 ELSE 2

\* cv::borderInterpolate(p, len, cv::BORDER_REFLECT_101)
RECURSIVE Reflect101(_, _)
Reflect101(p, len) ==
    IF len = 1 THEN 0
    ELSE IF p < 0 THEN Reflect101(0 - p, len)
    ELSE IF p >= len THEN Reflect101(2 * (len - 1) - p, len)
    ELSE p

\* cv::getGaussianKernel(5, 1.0) in thousandths (0.0545, 0.2442, 0.4026).
GaussTaps == <<54, 244, 404, 244, 54>>

\* The source rows cv::GaussianBlur(img.row(r), ...) reads.  img.row(r) is a
\* view into img, and without cv::BORDER_ISOLATED the filter takes the
\* pixels above and below the view from the parent image, reflecting only
\* at the parent's own edges.
RowsRead(m, r) == {Reflect101(r + a - 2, m.rows) : a \in 0 .. 4}

RECURSIVE BlurAcc(_, _, _, _, _)
\* The 5x5 weighted sum at (r, j), channel c, taps 0..n-1 in row-major order.
BlurAcc(m, r, j, c, n) ==
    IF n = 0 THEN 0
    ELSE LET a == (n - 1) \div 5
             b == (n - 1) % 5
         IN  BlurAcc(m, r, j, c, n - 1)
             + GaussTaps[a + 1] * GaussTaps[b + 1]
               * m.data[Reflect101(r + a - 2, m.rows)]
                       [Reflect101(j + b - 2, m.cols)][c]

\* cv::GaussianBlur(img.row(r), result.row(r), Size(5,5), 1.0, 1.0): row r.
BlurRow(m, r) ==
    [j \in 0 .. m.cols - 1 |-> [c \in 1 .. 3 |->
        (BlurAcc(m, r, j, c, 25) + 500000) \div 1000000]]

\* The buffer the pixel loops read besides the image, computed by the
\* library before the loop: mask (float, imgFloat - blurredFloat),
\* laplacian3ch (gray replicated), edges3ch (Canny: 0 or 255, replicated).
AuxVal(f, ap, i, j, c) ==
    CASE f = "UNSHARP_MASK" ->
             IF ap = "low" THEN 0 - ((i * 37 + j * 53 + c * 7) % 90)
             ELSE (i * 53 + j * 29 + c * 11) % 120
      [] f = "LAPLACIAN_SHARPEN" ->
             IF ap = "low" THEN (i * 91 + j * 57) % 64
             ELSE 255 - ((i * 91 + j * 57) % 64)
      [] f = "EDGE_ENHANCE" ->
             IF (i + j + (IF ap = "low" THEN 0 ELSE 1)) % 2 = 0 THEN 255 ELSE 0
      [] OTHER -> 0

AuxBuffer(f, m, ap) ==
    IF f \in PixelFilters
    THEN [it \in 0 .. m.rows * m.cols - 1 |-> [c \in 1 .. 3 |->
             AuxVal(f, ap, it \div m.cols, it % m.cols, c)]]
    ELSE <<>>

PixelOf(m, it) == m.data[it \div m.cols][it % m.cols]

\* One plane of cv::split(img, channels).
Channel(m, i) ==
    [r \in 0 .. m.rows - 1 |-> [c \in 0 .. m.cols - 1 |-> m.data[r][c][i + 1]]]

\* What iteration `it` of f's loop computes from the data it reads.  lut is
\* the content of the CLAHE object's lut_ at the time it is read.
\*   unsharp: float enhanced = original[c] + 1.5 * maskVal[c], in halves;
\*   laplacian: int sharpened = original[c] + 0.5 * edge[c], saturated;
\*   edge: int enhanced = original[c] + 1.0 * (edge[c] / 255.0) * 50, saturated;
\*   bilateral, CLAHE: the library's result for the channel.
IterValue(f, m, aux, it, lut) ==
    CASE f = "GAUSSIAN_BLUR" -> BlurRow(m, it)
      [] f = "UNSHARP_MASK" ->
             [c \in 1 .. 3 |-> 2 * PixelOf(m, it)[c] + 3 * aux[it][c]]
      [] f = "LAPLACIAN_SHARPEN" ->
             [c \in 1 .. 3 |->
                 SaturateU8((2 * PixelOf(m, it)[c] + aux[it][c]) \div 2)]
      [] f = "EDGE_ENHANCE" ->
             [c \in 1 .. 3 |->
                 SaturateU8(PixelOf(m, it)[c] + (aux[it][c] * 50) \div 255)]
      [] f = "BILATERAL_DENOISE" ->
             [op |-> "cv::bilateralFilter", src |-> Channel(m, it), lut |-> <<>>]
      [] f = "CLAHE_ENHANCE" ->
             [op |-> "cv::CLAHE::apply", src |-> Channel(m, it), lut |-> lut]

\* The lookup tables CLAHE::apply builds from a plane into the member lut_.
LutOf(m, it) == <<"lut", Channel(m, it)>>
NoLut == <<"lut">>

\* The destination buffer before the loop: result = img.clone() (converted to
\* float for unsharp mask), or the vector of three empty Mats.
InitialDest(f, m) ==
    CASE f = "GAUSSIAN_BLUR" -> [it \in Iterations(f, m) |-> m.data[it]]
      [] f = "UNSHARP_MASK" ->
             [it \in Iterations(f, m) |-> [c \in 1 .. 3 |-> 2 * PixelOf(m, it)[c]]]
      [] f \in {"LAPLACIAN_SHARPEN", "EDGE_ENHANCE"} ->
             [it \in Iterations(f, m) |-> PixelOf(m, it)]
      [] OTHER ->
             [it \in Iterations(f, m) |-> [op |-> "empty", src |-> <<>>, lut |-> <<>>]]

\* The memory one step of an iteration touches: reads ("r") and writes ("w")
\* of buffer elements.
Acc(it, kind, buf, idx) == [it |-> it, kind |-> kind, buf |-> buf, idx |-> idx]

Accesses(f, m, it, k) ==
    CASE f = "GAUSSIAN_BLUR" ->
             IF k = 1 THEN {Acc(it, "r", "img", r) : r \in RowsRead(m, it)}
             ELSE {Acc(it, "w", "result", it)}
      [] f \in PixelFilters ->
             {Acc(it, "r", "img", it), Acc(it, "r", "aux", it),
              Acc(it, "w", "result", it)}
      [] f = "BILATERAL_DENOISE" ->
             IF k = 1 THEN {Acc(it, "r", "channels", it)}
             ELSE {Acc(it, "w", "filteredChannels", it)}
      [] f = "CLAHE_ENHANCE" ->
             IF k = 1 THEN {Acc(it, "r", "bgrChannels", it),
                            Acc(it, "w", "clahe.lut_", 0)}
             ELSE {Acc(it, "r", "bgrChannels", it), Acc(it, "r", "clahe.lut_", 0),
                   Acc(it, "w", "processedChannels", it)}

\* What the calling thread does before and after the loop.
PreLoop(f) ==
    CASE f = "GAUSSIAN_BLUR" -> <<"clone">>
      [] f = "UNSHARP_MASK" -> <<"cv::GaussianBlur", "convertTo", "clone">>
      [] f = "LAPLACIAN_SHARPEN" ->
             <<"cv::cvtColor", "cv::Laplacian", "cv::convertScaleAbs", "clone">>
      [] f = "BILATERAL_DENOISE" -> <<"cv::split">>
      [] f = "CLAHE_ENHANCE" -> <<"cv::split", "cv::createCLAHE">>
      [] f = "EDGE_ENHANCE" -> <<"cv::cvtColor", "cv::Canny", "clone">>

PostLoop(f) ==
    CASE f = "UNSHARP_MASK" -> <<"convertTo">>
      [] f \in ChannelFilters -> <<"cv::merge">>
      [] OTHER -> <<>>

\* The image the routine returns, built from the destination buffer.
Finish(f, m, dest) ==
    CASE f = "GAUSSIAN_BLUR" ->
             [rows |-> m.rows, cols |-> m.cols, channels |-> 3,
              data |-> [i \in 0 .. m.rows - 1 |-> dest[i]]]
      [] f = "UNSHARP_MASK" ->
             [rows |-> m.rows, cols |-> m.cols, channels |-> 3,
              data |-> [i \in 0 .. m.rows - 1 |-> [j \in 0 .. m.cols - 1 |->
                          [c \in 1 .. 3 |->
                              ConvertTo8U(Frac(dest[i * m.cols + j][c], 2),
                                          TRUE, FALSE)]]]]
      [] f \in {"LAPLACIAN_SHARPEN", "EDGE_ENHANCE"} ->
             [rows |-> m.rows, cols |-> m.cols, channels |-> 3,
              data |-> [i \in 0 .. m.rows - 1 |-> [j \in 0 .. m.cols - 1 |->
                          dest[i * m.cols + j]]]]
      [] OTHER ->
             [rows |-> m.rows, cols |-> m.cols, channels |-> 3,
              data |-> <<dest[0], dest[1], dest[2]>>]

NoResult == [rows |-> 0, cols |-> 0, channels |-> 0, data |-> <<>>]

\* schedule(static): each worker gets a contiguous chunk of the iterations,
\* of any length; cut[k] is where worker k's chunk ends.
Assignments(iters) ==
    {[it \in iters |-> 1 + Cardinality({k \in 1 .. ParWorkers - 1 : cut[k] <= it})] :
        cut \in [1 .. ParWorkers - 1 -> 0 .. Cardinality(iters)]}

InitPar ==
    /\ ppc = "idle"
    /\ pfilter = "none"
    /\ psrc = EmptyMat
    /\ paux = <<>>
    /\ powner = <<>>
    /\ pstep = <<>>
    /\ plocal = <<>>
    /\ pdest = <<>>
    /\ pshared = NoLut
    /\ paccess = {}
    /\ presult = NoResult
    /\ pevents = <<>>

\* A routine is entered with a 3-channel image and runs up to its loop.
EnterRoutine(f, m, ap) ==
    /\ ppc = "idle"
    /\ ppc' = "prepared"
    /\ pfilter' = f
    /\ psrc' = m
    /\ paux' = AuxBuffer(f, m, ap)
    /\ pdest' = InitialDest(f, m)
    /\ pstep' = [it \in Iterations(f, m) |-> 0]
    /\ plocal' = [it \in Iterations(f, m) |-> <<>>]
    /\ pevents' = <<"enter">> \o PreLoop(f)
    /\ UNCHANGED <<powner, pshared, paccess, presult>>
    /\ UNCHANGED <<gvars, mvars, avars, svars>>

\* #pragma omp parallel for: the iterations are handed to the workers.
Fork(owner) ==
    /\ ppc = "prepared"
    /\ ppc' = "parallel"
    /\ powner' = owner
    /\ pevents' = Append(pevents, "fork")
    /\ UNCHANGED <<pfilter, psrc, paux, pstep, plocal, pdest, pshared, paccess,
                   presult>>
    /\ UNCHANGED <<gvars, mvars, avars, svars>>

\* The iteration worker w runs next: the first unfinished one of its chunk.
Current(w) ==
    {it \in DOMAIN powner :
        /\ powner[it] = w /\ pstep[it] < StepsOf(pfilter)
        /\ \A o \in DOMAIN powner :
               (powner[o] = w /\ pstep[o] < StepsOf(pfilter)) => it <= o}

\* Two threads inside CLAHE::apply on the same object race on its members
\* lut_ and srcExt_ (lut_.create, then writing the tables): the tables one
\* thread reads may be another channel's, or the process may crash.
ClaheRace(it) ==
    pfilter = "CLAHE_ENHANCE" /\ \E o \in DOMAIN pstep : o # it /\ pstep[o] = 1

\* Worker w runs the next step of its current iteration.
WorkerStep(w) ==
    /\ ppc = "parallel"
    /\ \E it \in Current(w) :
           LET k == pstep[it] + 1
           IN  /\ pstep' = [pstep EXCEPT ![it] = k]
               /\ paccess' = paccess \cup Accesses(pfilter, psrc, it, k)
               /\ IF pfilter = "CLAHE_ENHANCE"
                  THEN IF k = 1
                       THEN /\ pshared' = LutOf(psrc, it)
                            /\ \/ ppc' = "parallel"
                               \/ ClaheRace(it) /\ ppc' = "crashed"
                            /\ UNCHANGED <<plocal, pdest>>
                       ELSE /\ pdest' = [pdest EXCEPT ![it] =
                                            IterValue(pfilter, psrc, paux, it, pshared)]
                            /\ UNCHANGED <<ppc, plocal, pshared>>
                  ELSE IF pfilter \in PixelFilters
                       THEN /\ pdest' = [pdest EXCEPT ![it] =
                                            IterValue(pfilter, psrc, paux, it, <<>>)]
                            /\ UNCHANGED <<ppc, plocal, pshared>>
                  ELSE IF k = 1
                       THEN /\ plocal' = [plocal EXCEPT ![it] =
                                             IterValue(pfilter, psrc, paux, it, <<>>)]
                            /\ UNCHANGED <<ppc, pdest, pshared>>
                       ELSE /\ pdest' = [pdest EXCEPT ![it] = plocal[it]]
                            /\ UNCHANGED <<ppc, plocal, pshared>>
    /\ UNCHANGED <<pfilter, psrc, paux, powner, presult, pevents>>
    /\ UNCHANGED <<gvars, mvars, avars, svars>>

JoinReady_NoWait == TRUE

\* The implicit barrier at the end of the parallel for: every iteration done.
JoinReady == \A it \in DOMAIN pstep : pstep[it] = StepsOf(pfilter)

\* The calling thread passes the barrier.
Join ==
    /\ ppc = "parallel"
    /\ JoinReady
    /\ ppc' = "joined"
    /\ pevents' = Append(pevents, "join")
    /\ UNCHANGED <<pfilter, psrc, paux, powner, pstep, plocal, pdest, pshared,
                   paccess, presult>>
    /\ UNCHANGED <<gvars, mvars, avars, svars>>

\* The calling thread finishes (convertTo or cv::merge) and returns.
ReturnResult ==
    /\ ppc = "joined"
    /\ ppc' = "returned"
    /\ presult' = Finish(pfilter, psrc, pdest)
    /\ pevents' = pevents \o PostLoop(pfilter) \o <<"return">>
    /\ UNCHANGED <<pfilter, psrc, paux, powner, pstep, plocal, pdest, pshared,
                   paccess>>
    /\ UNCHANGED <<gvars, mvars, avars, svars>>

\* ------------------------------------------- assessImageQuality, called freely
\* Largest number of ImagePreprocessor objects and of assessImageQuality calls.
MaxProcessors == 2
MaxAssessCalls == 2

\* The images a caller holds.  cv::Laplacian, cv::meanStdDev, cv::mean and
\* cv::filter2D are functions of the pixel data, so an image stands here with
\* the three values they measure on it.
VariedImages ==
    {[shape |-> Shape(MaxDim, MaxDim, 3), measures |-> m] :
        m \in {t \in MetricTriples :
                  /\ t.blurVariance \in {0, 300 * MetricScale}
                  /\ t.noiseLevel \in {0, 40 * MetricScale}
                  /\ t.brightness \in {10 * MetricScale, 128 * MetricScale,
                                        230 * MetricScale}}}

\* The image whose every sample is c.  cv::Laplacian of a constant image is
\* zero everywhere, so stddev and variance are 0; cv::mean is c; cv::filter2D
\* with the normalized Gaussian kernel returns the image, so diff is zero and
\* noiseStd is 0.
UniformImage(c) ==
    [shape |-> Shape(MaxDim, MaxDim, 3),
     measures |-> [blurVariance |-> 0, brightness |-> c * MetricScale,
                   noiseLevel |-> 0]]

AssessImages == VariedImages \cup {UniformImage(10), UniformImage(230)}

Line(text, value) == [line |-> text, value |-> value]

\* The std::cout lines of the `if (verbose)` block.
MetricLines(m) ==
    <<Line("Image Quality Assessment:", 0), Line("Blur variance", m.blurVariance),
      Line("Brightness", m.brightness), Line("Noise level", m.noiseLevel)>>

\* The std::cout line of the branch taken, written whatever verbose is.
RecommendationLine(filter) ==
    CASE filter = "UNSHARP_MASK" -> Line("Recommendation: Image appears blurry", 0)
      [] filter = "BILATERAL_DENOISE" -> Line("Recommendation: Image appears noisy", 0)
      [] filter = "CLAHE_ENHANCE" -> Line("Recommendation: Poor contrast", 0)
      [] OTHER -> Line("Recommendation: Good quality", 0)

\* The decision taken inside the verbose block: a quiet object answers with
\* the default filter.
assessImageQuality_VerboseDecides(verbose, image) ==
    LET m == image.measures
        filter == IF verbose THEN Decide(m) ELSE "GAUSSIAN_BLUR"
    IN  [ret |-> filter,
         printed |-> (IF verbose THEN MetricLines(m) ELSE <<>>)
                     \o <<RecommendationLine(filter)>>,
         after |-> image]

\* ImagePreprocessor::assessImageQuality(img) on an object with the given
\* verbose: the filter returned, the lines printed, and img after the call
\* (img is a const reference; gray and the other Mats are locals).
assessImageQuality(verbose, image) ==
    LET m == image.measures
        filter == Decide(m)
    IN  [ret |-> filter,
         printed |-> (IF verbose THEN MetricLines(m) ELSE <<>>)
                     \o <<RecommendationLine(filter)>>,
         after |-> image]

InitAssess ==
    /\ aobjs = <<>>
    /\ acalls = <<>>

\* ImagePreprocessor::ImagePreprocessor(verbose)
NewProcessor(verbose) ==
    /\ Len(aobjs) < MaxProcessors
    /\ aobjs' = Append(aobjs, [verbose |-> verbose])
    /\ UNCHANGED acalls
    /\ UNCHANGED <<gvars, mvars, pvars, svars>>

\* aobjs[o].assessImageQuality(image)
CallAssess(o, image) ==
    /\ o \in DOMAIN aobjs
    /\ Len(acalls) < MaxAssessCalls
    /\ LET r == assessImageQuality(aobjs[o].verbose, image)
       IN  acalls' = Append(acalls, [obj |-> o, verbose |-> aobjs[o].verbose,
                                     arg |-> image, ret |-> r.ret,
                                     printed |-> r.printed, after |-> r.after])
    /\ UNCHANGED aobjs
    /\ UNCHANGED <<gvars, mvars, pvars, svars>>

\* ------------------------------------------------------ pipeline.sh setup
\* The machines the script may run on: which tools `command -v` finds, which
\* OpenCV packages pkg-config knows, and whether `make all` and
\* `make install-deps` succeed there.
Environments ==
    [make : BOOLEAN, pkgconfig : BOOLEAN, opencv4 : BOOLEAN, opencv : BOOLEAN,
     python3 : BOOLEAN, makeAll : BOOLEAN, installDeps : BOOLEAN]

NoEnvironment ==
    [make |-> FALSE, pkgconfig |-> FALSE, opencv4 |-> FALSE, opencv |-> FALSE,
     python3 |-> FALSE, makeAll |-> FALSE, installDeps |-> FALSE]

\* check_dependencies: the array missing_deps, in the order it is filled.
\* Without pkg-config both `pkg-config --exists` commands fail.
missing_deps(env) ==
    (IF env.make THEN <<>> ELSE <<"make">>)
    \o (IF env.pkgconfig THEN <<>> ELSE <<"pkg-config">>)
    \o (IF env.pkgconfig /\ (env.opencv4 \/ env.opencv) THEN <<>> ELSE <<"opencv">>)
    \o (IF env.python3 THEN <<>> ELSE <<"python3">>)

InitSetup ==
    /\ spc = "idle"
    /\ senv = NoEnvironment
    /\ sout = <<>>
    /\ sstatus = -1

\* `pipeline.sh setup` is started on the machine env: setup_pipeline prints
\* its banner.
setup_pipeline(env) ==
    /\ spc = "idle"
    /\ senv' = env
    /\ sout' = <<"Setting up Computer Vision Pipeline...">>
    /\ spc' = "check"
    /\ UNCHANGED sstatus
    /\ UNCHANGED <<gvars, mvars, pvars, avars>>

\* `if ! check_dependencies; then return 1; fi`; under set -e the script
\* ends with the status setup_pipeline returned.
check_dependencies ==
    /\ spc = "check"
    /\ IF missing_deps(senv) # <<>>
       THEN /\ sout' = sout \o <<"check_dependencies", "Missing dependencies">>
            /\ sstatus' = 1
            /\ spc' = "exit"
       ELSE /\ sout' = Append(sout, "check_dependencies")
            /\ spc' = "build"
            /\ UNCHANGED sstatus
    /\ UNCHANGED senv
    /\ UNCHANGED <<gvars, mvars, pvars, avars>>

\* `if ! build_project; then return 1; fi`
build_project ==
    /\ spc = "build"
    /\ IF senv.makeAll
       THEN /\ sout' = sout \o <<"Building project...", "make all",
                                  "Build successful!">>
            /\ spc' = "install"
            /\ UNCHANGED sstatus
       ELSE /\ sout' = sout \o <<"Building project...", "make all", "Build failed!">>
            /\ sstatus' = 1
            /\ spc' = "exit"
    /\ UNCHANGED senv
    /\ UNCHANGED <<gvars, mvars, pvars, avars>>

\* A setup that gives up when the Python packages cannot be installed.
install_deps_Fatal ==
    /\ spc = "install"
    /\ IF senv.installDeps
       THEN /\ sout' = sout \o <<"Installing Python dependencies...",
                                  "make install-deps">>
            /\ spc' = "complete"
            /\ UNCHANGED sstatus
       ELSE /\ sout' = sout \o <<"Installing Python dependencies...",
                                  "make install-deps",
                                  "Warning: Python dependencies installation failed">>
            /\ sstatus' = 1
            /\ spc' = "exit"
    /\ UNCHANGED senv
    /\ UNCHANGED <<gvars, mvars, pvars, avars>>

\* `if ! make install-deps; then` warn `fi`
install_deps ==
    /\ spc = "install"
    /\ sout' = sout \o <<"Installing Python dependencies...", "make install-deps">>
               \o (IF senv.installDeps THEN <<>>
                   ELSE <<"Warning: Python dependencies installation failed">>)
    /\ spc' = "complete"
    /\ UNCHANGED <<senv, sstatus>>
    /\ UNCHANGED <<gvars, mvars, pvars, avars>>

\* The closing messages of setup_pipeline and its `return 0`.
setup_complete ==
    /\ spc = "complete"
    /\ sout' = Append(sout, "Setup complete!")
    /\ sstatus' = 0
    /\ spc' = "exit"
    /\ UNCHANGED senv
    /\ UNCHANGED <<gvars, mvars, pvars, avars>>

\* ----------------------------------------------------------- specifications
Init == InitGauss /\ InitMain /\ InitPar /\ InitAssess /\ InitSetup

NextMain ==
    \/ \E n \in 1 .. MaxArgc, a3 \in ArgWords, a4 \in {"auto", "foo"} :
           ParseArgs(n, IF n > 3 THEN a3 ELSE "", IF n > 4 THEN a4 ELSE "")
    \/ \E m \in DecodedShapes \cup {EmptyShape} : LoadImage(m)
    \/ \E m \in MetricTriples : AssessQuality(m)
    \/ SelectManual
    \/ ProcessSelected
    \/ \E ok \in BOOLEAN : SaveImage(ok)
    \/ \E m \in CallerShapes, f \in FilterTypes : CallProcessImage(m, f)

\* The preprocess program and the ImagePreprocessor it uses.
Spec == Init /\ [][NextMain]_vars

NextGauss ==
    \/ \E size \in SizeVals, s \in SigmaVals : Construct(size, s)
    \/ \E img0 \in Images : TakeImage(img0)
    \/ ApplyConvolution
    \/ ApplySeparableConvolution

\* The GaussianBlurFilter object and its caller.
SpecGauss == Init /\ [][NextGauss]_vars

NextGaussApi ==
    \/ \E size \in SizeVals, s \in SigmaVals : Construct(size, s)
    \/ \E img0 \in ApiImages : PassImage(img0)
    \/ ApplyConvolution
    \/ ApplySeparableConvolution
    \/ PrintKernel
    \/ GetKernelSize
    \/ GetSigma

\* A GaussianBlurFilter whose public methods are called in any order.
SpecGaussApi == Init /\ [][NextGaussApi]_vars

NextPar ==
    \/ \E f \in FilterTypes, in \in ParInputs : EnterRoutine(f, in[1], in[2])
    \/ \E owner \in Assignments(DOMAIN pstep) : Fork(owner)
    \/ \E w \in 1 .. ParWorkers : WorkerStep(w)
    \/ Join
    \/ ReturnResult

\* One call of a filter routine, its parallel loop run by the workers.
SpecPar == Init /\ [][NextPar]_vars

NextAssess ==
    \/ \E verbose \in BOOLEAN : NewProcessor(verbose)
    \/ \E o \in 1 .. MaxProcessors, image \in AssessImages : CallAssess(o, image)

\* ImagePreprocessor objects whose assessImageQuality is called in any order.
SpecAssess == Init /\ [][NextAssess]_vars

NextSetup ==
    \/ \E env \in Environments : setup_pipeline(env)
    \/ check_dependencies
    \/ build_project
    \/ install_deps
    \/ setup_complete

\* One run of `pipeline.sh setup`.
SpecSetup == Init /\ [][NextSetup]_vars

\* ------------------------------------------------------------------ claims
Assessed == mpc \in {"selected", "processed", "exit"} /\ metrics # NoMetrics

\* C1: assessImageQuality returns the first match of the ordered policy:
\* Unsharp-Mask if blurVariance < 100; otherwise Bilateral-Denoise if
\* noiseLevel > 15; otherwise CLAHE-Enhance if brightness < 50 or
\* brightness > 200; otherwise Edge-Enhance.  All comparisons are strict.
C1_DecisionPolicy ==
    Assessed =>
        LET b == metrics.blurVariance
            n == metrics.noiseLevel
            l == metrics.brightness
            u == MetricScale
        IN  /\ b < 100 * u => selectedFilter = "UNSHARP_MASK"
            /\ (b >= 100 * u /\ n > 15 * u) => selectedFilter = "BILATERAL_DENOISE"
            /\ (b >= 100 * u /\ n <= 15 * u /\ (l < 50 * u \/ l > 200 * u))
                   => selectedFilter = "CLAHE_ENHANCE"
            /\ (b >= 100 * u /\ n <= 15 * u /\ l >= 50 * u /\ l <= 200 * u)
                   => selectedFilter = "EDGE_ENHANCE"

\* C1 witness: every metric sits exactly on its threshold and the assessment
\* fell through to Edge-Enhance.
C1_Witness ==
    /\ Assessed
    /\ metrics.blurVariance = 100 * MetricScale
    /\ metrics.noiseLevel = 15 * MetricScale
    /\ metrics.brightness \in {50 * MetricScale, 200 * MetricScale}
    /\ selectedFilter = "EDGE_ENHANCE"

RecognizedWords == {"blur", "sharpen", "laplacian", "denoise", "clahe", "edge"}

\* C2: an explicit filter request whose name is not one of the six recognized
\* identifiers is never replaced by Gaussian-Blur or any other filter: no
\* filter is selected or applied for it and the run ends in an error.
C2_UnrecognizedSurfaced ==
    (mpc \in {"selected", "processed", "exit"} /\ argc > 3 /\ ~autoAssess
        /\ filterStr \notin RecognizedWords)
    => /\ selectedFilter = "unset"
       /\ processed = NotCalled
       /\ (mpc = "exit" => exitCode # 0)

\* C3: construction with a size that is even or non-positive fails with an
\* invalid-argument condition and generates no kernel; construction with a
\* positive odd size succeeds.
C3_BadSizeInvalidArgument ==
    gpc # "new" =>
        IF kernelSize <= 0 \/ kernelSize % 2 = 0
        THEN gpc = "failed" /\ ctorError = "invalid_argument" /\ kernel = <<>>
        ELSE gpc = "ready" /\ ctorError = "none"

\* C4: no filter object with a non-positive sigma ever exists.
C4_SigmaPositive == gpc = "ready" => sigma > 0

\* C5: applyConvolution and applySeparableConvolution each reject an empty
\* image with an invalid-argument condition before any grayscale conversion,
\* kernel derivation or convolution, and leave the filter's state unchanged.
C5_EmptyRejected ==
    [][/\ (empty(input) /\ out2d.status = "none" /\ out2d'.status # "none")
           => /\ out2d'.status = "invalid_argument"
              /\ out2d'.steps = <<>>
              /\ out2d'.result = EmptyMat
              /\ <<gpc, kernelSize, sigma, kernel>>' = <<gpc, kernelSize, sigma, kernel>>
       /\ (empty(input) /\ outSep.status = "none" /\ outSep'.status # "none")
           => /\ outSep'.status = "invalid_argument"
              /\ outSep'.steps = <<>>
              /\ outSep'.result = EmptyMat
              /\ <<gpc, kernelSize, sigma, kernel>>' = <<gpc, kernelSize, sigma, kernel>>
      ]_vars

\* C5 witness: both functions were called on an empty image and both threw.
C5_Witness ==
    /\ gpc = "ready"
    /\ empty(input)
    /\ out2d.status = "invalid_argument"
    /\ outSep.status = "invalid_argument"

Interior(m, size) ==
    {p \in (0 .. m.rows - 1) \X (0 .. m.cols - 1) :
        /\ size \div 2 <= p[1] /\ p[1] < m.rows - size \div 2
        /\ size \div 2 <= p[2] /\ p[2] < m.cols - size \div 2}
Border(m, size) == ((0 .. m.rows - 1) \X (0 .. m.cols - 1)) \ Interior(m, size)
BothApplied == gpc = "ready" /\ out2d.status = "ok" /\ outSep.status = "ok"

\* C6: for sigma > 0 applyConvolution and applySeparableConvolution agree
\* within one intensity level at every interior pixel, and the 2-D kernel is
\* the outer product of the normalized 1-D kernel with itself.
C6_SeparableAgrees ==
    (gpc = "ready" /\ sigma > 0) =>
        /\ LET k1 == generateKernel1D(kernelSize, sigma)
           IN  \A i, j \in 0 .. kernelSize - 1 : kernel[i][j] = FMul(k1[i], k1[j])
        /\ BothApplied =>
               \A p \in Interior(input, kernelSize) :
                   Abs(out2d.result.data[p[1]][p[2]][1]
                       - outSep.result.data[p[1]][p[2]][1]) <= 1

\* C6 witness: both functions ran with a 3x3 or larger kernel on an image
\* with an interior pixel that the blur changed, and with an interior pixel
\* where the two results are one intensity level apart.
C6_Witness ==
    /\ BothApplied /\ sigma > 0 /\ kernelSize >= 3
    /\ \E p \in Interior(input, kernelSize) :
           /\ out2d.result.data[p[1]][p[2]][1] # GrayInput(input)[p[1]][p[2]]
           /\ out2d.result.data[p[1]][p[2]][1] > 0
    /\ \E p \in Interior(input, kernelSize) :
           Abs(out2d.result.data[p[1]][p[2]][1]
               - outSep.result.data[p[1]][p[2]][1]) = 1

\* C7: in the result of both functions every border pixel (within size/2 of
\* an edge) holds the pre-fill value of the output buffer, zero.
C7_BorderZero ==
    /\ (gpc = "ready" /\ out2d.status = "ok") =>
           \A p \in Border(input, kernelSize) : out2d.result.data[p[1]][p[2]] = <<0>>
    /\ (gpc = "ready" /\ outSep.status = "ok") =>
           \A p \in Border(input, kernelSize) : outSep.result.data[p[1]][p[2]] = <<0>>

\* C7 witness: both results have a border whose input pixels were not zero
\* and an interior that is not zero.
C7_Witness ==
    /\ BothApplied /\ kernelSize >= 3
    /\ \E p \in Border(input, kernelSize) : GrayInput(input)[p[1]][p[2]] > 0
    /\ \E p \in Interior(input, kernelSize) : outSep.result.data[p[1]][p[2]][1] > 0

\* C8: for sigma > 0 the 2-D kernel has only non-negative weights that sum
\* to 1, and the 1-D kernel of the separable path has the same size and
\* sums to 1.
C8_KernelNormalized ==
    (gpc = "ready" /\ sigma > 0) =>
        LET k1 == generateKernel1D(kernelSize, sigma)
        IN  /\ DOMAIN kernel = 0 .. kernelSize - 1
            /\ \A i \in 0 .. kernelSize - 1 :
                   /\ DOMAIN kernel[i] = 0 .. kernelSize - 1
                   /\ \A j \in 0 .. kernelSize - 1 :
                          kernel[i][j].n >= 0 /\ kernel[i][j].d > 0
            /\ SumCells(kernel, kernelSize, kernelSize * kernelSize) = One
            /\ DOMAIN k1 = 0 .. kernelSize - 1
            /\ \A i \in 0 .. kernelSize - 1 : k1[i].n >= 0 /\ k1[i].d > 0
            /\ SumVec(k1, kernelSize) = One

\* C8 witness: a 5x5 kernel with sigma > 0 whose weights are not all equal.
C8_Witness ==
    gpc = "ready" /\ sigma > 0 /\ kernelSize = 5 /\ kernel[0][0] # kernel[2][2]

\* C9: for sigma > 0 the kernel is symmetric under 180-degree rotation about
\* its center: kernel[i][j] = kernel[size-1-i][size-1-j].
C9_KernelSymmetric ==
    (gpc = "ready" /\ sigma > 0) =>
        \A i, j \in 0 .. kernelSize - 1 :
            kernel[i][j] = kernel[kernelSize - 1 - i][kernelSize - 1 - j]

\* C9 witness: a 3x3 kernel with sigma > 0 whose corner, edge and center
\* weights differ.
C9_Witness ==
    /\ gpc = "ready" /\ sigma > 0 /\ kernelSize = 3
    /\ kernel[0][0] # kernel[0][1] /\ kernel[0][1] # kernel[1][1]

\* C10: processImage returns, for every filter and every 1-channel or
\* 3-channel input, an image with the input's width, height and channels.
C10_SameShape ==
    processed # NotCalled =>
        /\ processed.status = "ok"
        /\ processed.rows = img.rows
        /\ processed.cols = img.cols
        /\ processed.channels = img.channels

\* The 8-bit value v is the float value acc rounded to a nearest integer and
\* clamped: 0 below 0 (and for NaN), 255 above 255.
RoundedClamped(acc, v) ==
    IF IsNaN(acc) THEN v = 0
    ELSE IF acc.n < 0 THEN v = 0
    ELSE IF acc.n > 255 * acc.d THEN v = 255
    ELSE LET fl == Floor(acc)
             rem == acc.n - fl * acc.d
             tol == (2 * acc.d) \div FloatTolDen
         IN  \/ v = fl /\ 2 * rem <= acc.d + tol
             \/ v = fl + 1 /\ 2 * rem >= acc.d - tol

GrayscaleResult(call, m) ==
    /\ call.result.rows = m.rows
    /\ call.result.cols = m.cols
    /\ call.result.channels = 1
    /\ \A i \in 0 .. m.rows - 1, j \in 0 .. m.cols - 1 :
           Len(call.result.data[i][j]) = 1
    /\ call.steps[1] = "gray"
    /\ (kernelSize = 1 /\ sigma > 0) =>
           \A i \in 0 .. m.rows - 1, j \in 0 .. m.cols - 1 :
               LET v == call.result.data[i][j][1]
                   px == m.data[i][j]
               IN  IF m.channels = 3
                   THEN Abs(1000 * v - (114 * px[1] + 587 * px[2] + 299 * px[3]))
                            <= 510
                   ELSE v = px[1]

\* C12: both convolution functions work on grayscale data: a 3-channel input
\* is first reduced to one grayscale channel, a 1-channel input is convolved
\* as is, and the result is a single-channel image with the input's rows and
\* columns.
C12_GrayscaleReduce ==
    /\ (gpc = "ready" /\ out2d.status = "ok") => GrayscaleResult(out2d, input)
    /\ (gpc = "ready" /\ outSep.status = "ok") => GrayscaleResult(outSep, input)

\* C12 witness: both functions ran with the identity kernel on a 3-channel
\* image with a pixel whose grayscale is none of its three samples.
C12_Witness ==
    /\ BothApplied /\ sigma > 0 /\ kernelSize = 1 /\ input.channels = 3
    /\ \E i \in 0 .. input.rows - 1, j \in 0 .. input.cols - 1 :
           /\ out2d.result.data[i][j][1] \notin
                  {input.data[i][j][k] : k \in 1 .. 3}
           /\ outSep.result.data[i][j][1] = out2d.result.data[i][j][1]

\* A step that is a call of one of the filter's methods.
MethodCall ==
    \/ out2d.status = "none" /\ out2d'.status # "none"
    \/ outSep.status = "none" /\ outSep'.status # "none"
    \/ observed' # observed

\* C13: once constructed, the filter's kernel, kernelSize and sigma never
\* change, whatever methods are called and whether or not they fail, and a
\* method call does not modify the image passed to it.
C13_KernelImmutable ==
    [][gpc = "ready" =>
           /\ gpc' = "ready"
           /\ kernel' = kernel
           /\ kernelSize' = kernelSize
           /\ sigma' = sigma
           /\ MethodCall => input' = input
      ]_vars

\* C13 witness: a 3x3 filter whose every method has been called, the
\* convolutions on a non-empty image, and whose kernel is still the one
\* generateGaussianKernel builds.
C13_Witness ==
    /\ BothApplied /\ kernelSize = 3 /\ sigma > 0
    /\ observed.call = "printKernel"
    /\ kernel = generateGaussianKernel(3, sigma)
    /\ kernel[0][0] # kernel[1][1]

\* The routine that belongs to each filter identifier.
OwnRoutine(filter) ==
    CASE filter = "GAUSSIAN_BLUR" -> "applyGaussianBlur"
      [] filter = "UNSHARP_MASK" -> "applyUnsharpMask"
      [] filter = "LAPLACIAN_SHARPEN" -> "applyLaplacianSharpen"
      [] filter = "BILATERAL_DENOISE" -> "applyBilateralDenoise"
      [] filter = "CLAHE_ENHANCE" -> "applyCLAHE"
      [] filter = "EDGE_ENHANCE" -> "applyEdgeEnhance"

InvokedSet == {routine.invokes[k] : k \in DOMAIN routine.invokes}
EngineOps == {"GaussianBlurFilter::applyConvolution",
              "GaussianBlurFilter::applySeparableConvolution"}

Conflict(a, b) ==
    /\ a.it # b.it
    /\ a.buf = b.buf /\ a.idx = b.idx
    /\ a.kind = "w" \/ b.kind = "w"

DestBuffers == {"result", "filteredChannels", "processedChannels"}

\* C15: in the parallel region of every filter no two iterations write the
\* same location and none writes what another reads: each iteration writes
\* only its own row, pixel or channel of the destination, and everything
\* else is only read.
C15_DisjointWrites ==
    /\ \A a, b \in paccess : ~Conflict(a, b)
    /\ \A a \in paccess : a.kind = "w" => (a.buf \in DestBuffers /\ a.idx = a.it)

\* The destination buffer after the loop's iterations ran one after another
\* in index order.
SeqDest(f, m, aux) ==
    [it \in Iterations(f, m) |-> IterValue(f, m, aux, it, LutOf(m, it))]

\* C16: whatever the assignment of iterations to workers and the
\* interleaving, the image a filter returns is the one the sequential loop
\* produces.
C16_OrderIndependent ==
    ppc = "returned" =>
        presult = Finish(pfilter, psrc, SeqDest(pfilter, psrc, paux))

RECURSIVE IndexOf(_, _, _)
\* The first position of e in the sequence s at or after n, 0 if none.
IndexOf(s, e, n) ==
    IF n > Len(s) THEN 0 ELSE IF s[n] = e THEN n ELSE IndexOf(s, e, n + 1)

\* C17: in bilateral denoise and CLAHE the split precedes the parallel loop,
\* the merge happens only after every channel iteration has completed, it
\* merges three processed channels, and the routine returns after the merge.
C17_MergeAfterBarrier ==
    pfilter \in ChannelFilters =>
        /\ IndexOf(pevents, "fork", 1) > 0 =>
               /\ IndexOf(pevents, "cv::split", 1) > 0
               /\ IndexOf(pevents, "cv::split", 1) < IndexOf(pevents, "fork", 1)
        /\ IndexOf(pevents, "cv::merge", 1) > 0 =>
               /\ \A it \in 0 .. 2 :
                      pstep[it] = StepsOf(pfilter) /\ pdest[it].op # "empty"
               /\ IndexOf(pevents, "join", 1) > IndexOf(pevents, "fork", 1)
               /\ IndexOf(pevents, "cv::merge", 1) > IndexOf(pevents, "join", 1)
        /\ ppc = "returned" =>
               /\ IndexOf(pevents, "cv::merge", 1) > 0
               /\ IndexOf(pevents, "return", 1) > IndexOf(pevents, "cv::merge", 1)
               /\ presult.data = <<pdest[0], pdest[1], pdest[2]>>

\* C17 witness: a channel-parallel filter returned after its three channels
\* were processed by two different workers.
C17_Witness ==
    /\ pfilter \in ChannelFilters /\ ppc = "returned"
    /\ \E a, b \in 0 .. 2 : powner[a] # powner[b]
    /\ psrc.rows > 1

\* The image m with the samples of row k inverted.
WithRowChanged(m, k) ==
    [m EXCEPT !.data[k] =
        [j \in 0 .. m.cols - 1 |-> [c \in 1 .. 3 |-> 255 - m.data[k][j][c]]]]

\* C18: the Gaussian-Blur iteration for row r reads only source row r and
\* writes only destination row r, so changing any other source row leaves
\* destination row r as it is, and the only synchronization is the join.
C18_RowsIndependent ==
    pfilter = "GAUSSIAN_BLUR" =>
        /\ \A a \in paccess :
               /\ a.kind = "r" => (a.buf = "img" /\ a.idx = a.it)
               /\ a.kind = "w" => (a.buf = "result" /\ a.idx = a.it)
        /\ ppc = "returned" =>
               \A r, k \in 0 .. psrc.rows - 1 :
                   k # r => BlurRow(WithRowChanged(psrc, k), r) = presult.data[r]
        /\ \A n \in 1 .. Len(pevents) :
               pevents[n] \in {"enter", "clone", "fork", "join", "return"}

StepRank(e) ==
    CASE e = "usage" -> 0
      [] e = "decode" -> 1
      [] e = "assess" -> 2
      [] e = "filter" -> 3
      [] e = "fork" -> 4
      [] e = "join" -> 5
      [] e \in {"encode", "encode_failed"} -> 6

StepCount(e) == Cardinality({n \in DOMAIN events : events[n] = e})

DocumentedFilter(word) ==
    CASE word = "blur" -> "GAUSSIAN_BLUR"
      [] word = "sharpen" -> "UNSHARP_MASK"
      [] word = "laplacian" -> "LAPLACIAN_SHARPEN"
      [] word = "denoise" -> "BILATERAL_DENOISE"
      [] word = "clahe" -> "CLAHE_ENHANCE"
      [] word = "edge" -> "EDGE_ENHANCE"

\* main() has decoded the image and selected the filter.
Selected == mpc \in {"selected", "processed"} \/ (mpc = "exit" /\ img # EmptyShape)

\* The run's filter was chosen by quality assessment.
ByAssessment == metrics # NoMetrics /\ selectedFilter = Decide(metrics)

\* C21: the command line's filter names select the documented filters; auto
\* or no filter argument selects by quality assessment; a fourth argument
\* auto selects by quality assessment whatever the third argument is.
C21_CommandLineMapping ==
    Selected =>
        /\ (argc > 4 /\ argv[4] = "auto") => ByAssessment
        /\ (argc = 3 \/ (argc > 3 /\ argv[3] = "auto")) => ByAssessment
        /\ (argc > 3 /\ argv[3] \in RecognizedWords
               /\ ~(argc > 4 /\ argv[4] = "auto"))
               => /\ selectedFilter = DocumentedFilter(argv[3])
                  /\ metrics = NoMetrics

\* C21 witness: sharpen was named, the fourth argument was auto, and the
\* assessment chose another filter, which was applied.
C21_Witness ==
    /\ mpc = "processed"
    /\ argc = 5 /\ argv[3] = "sharpen" /\ argv[4] = "auto"
    /\ selectedFilter = "EDGE_ENHANCE"
    /\ routine.name = "applyEdgeEnhance"

UniformDarkOrBright == {UniformImage(10), UniformImage(230)}

\* Metrics that pass the blur and noise tests with a brightness of 10 or 230.
DarkOrBright(m) ==
    /\ m.blurVariance >= BlurThreshold * MetricScale
    /\ m.noiseLevel <= NoiseThreshold * MetricScale
    /\ m.brightness \in {10 * MetricScale, 230 * MetricScale}

AwayFromEdges(x, n, dist) == dist <= x /\ x < n - dist

\* C23: applySeparableConvolution runs the horizontal pass, then the vertical
\* pass.  The intermediate buffer holds, in every row (the top and bottom
\* rows included), the row convolution of the grayscale input at the columns
\* at least size/2 from the left and right edges, and zero elsewhere.  The
\* output holds, at the rows at least size/2 from the top and bottom edges,
\* the column convolution of the intermediate buffer alone, and zero at the
\* other rows.
C23_TwoPasses ==
    (gpc = "ready" /\ outSep.status = "ok") =>
        LET padding == kernelSize \div 2
            k1 == generateKernel1D(kernelSize, sigma)
            gray == GrayInput(input)
        IN  /\ IndexOf(outSep.steps, "horizontal", 1) > 0
            /\ IndexOf(outSep.steps, "vertical", 1)
                   = IndexOf(outSep.steps, "horizontal", 1) + 1
            /\ \A i \in 0 .. input.rows - 1, j \in 0 .. input.cols - 1 :
                   /\ outSep.temp[i][j] =
                          (IF AwayFromEdges(j, input.cols, padding)
                           THEN AccRow(gray, k1, kernelSize, i, j, kernelSize)
                           ELSE Zero)
                   /\ IF AwayFromEdges(i, input.rows, padding)
                      THEN RoundedClamped(
                               AccCol(outSep.temp, k1, kernelSize, i, j, kernelSize),
                               outSep.result.data[i][j][1])
                      ELSE outSep.result.data[i][j][1] = 0
                   /\ (AwayFromEdges(i, input.rows, padding)
                          /\ ~AwayFromEdges(j, input.cols, padding))
                          => outSep.result.data[i][j][1] = 0

\* C23 witness: the horizontal pass convolved the top row, the vertical pass
\* produced a non-zero interior pixel, and at an interior row it left a
\* border column at zero where the input is not zero.
C23_Witness ==
    /\ gpc = "ready" /\ outSep.status = "ok" /\ sigma > 0 /\ kernelSize >= 3
    /\ LET padding == kernelSize \div 2
       IN  /\ input.rows > 2 * padding /\ input.cols > 2 * padding
           /\ outSep.temp[0][padding] # Zero
           /\ outSep.result.data[padding][padding][1] > 0
           /\ outSep.result.data[padding][0][1] = 0
           /\ GrayInput(input)[padding][0] > 0

LastEvent == IF events = <<>> THEN "none" ELSE events[Len(events)]

\* C24: main() ends with 0 or 1.  With argc < 3 it prints the usage and ends
\* with 1 without decoding anything; with an image that does not decode it
\* ends with 1 before any assessment, filter or write; with a failed write it
\* ends with 1; it ends with 0 exactly when its last step is the successful
\* write of the image processImage returned, and no run that ends with 1 has
\* written the output.
C24_FailuresSurfaced ==
    mpc = "exit" =>
        /\ exitCode \in {0, 1}
        /\ argc < 3 => exitCode = 1 /\ events = <<"usage">>
        /\ (argc >= 3 /\ img = EmptyShape) => exitCode = 1 /\ events = <<"decode">>
        /\ LastEvent = "encode_failed" => exitCode = 1
        /\ exitCode = 0 <=> LastEvent = "encode"
        /\ exitCode = 0 =>
               /\ processed.status = "ok"
               /\ IndexOf(events, "decode", 1) > 0
               /\ IndexOf(events, "join", 1) = Len(events) - 1
        /\ exitCode = 1 => StepCount("encode") = 0

\* C24 witness: the image was decoded and processed, the write failed, and
\* main() ended with 1.
C24_Witness ==
    /\ mpc = "exit" /\ exitCode = 1
    /\ processed.status = "ok"
    /\ LastEvent = "encode_failed"

\* The place of a command or message in setup_pipeline.
SetupRank(line) ==
    CASE line = "Setting up Computer Vision Pipeline..." -> 0
      [] line = "check_dependencies" -> 1
      [] line = "Missing dependencies" -> 2
      [] line = "Building project..." -> 3
      [] line = "make all" -> 4
      [] line \in {"Build successful!", "Build failed!"} -> 5
      [] line = "Installing Python dependencies..." -> 6
      [] line = "make install-deps" -> 7
      [] line = "Warning: Python dependencies installation failed" -> 8
      [] line = "Setup complete!" -> 9

Ran(line) == IndexOf(sout, line, 1) > 0

\* C25: setup runs the dependency check, then the build, then the Python
\* install, in that order.  With a dependency missing it ends with a failure
\* status and no build is attempted; with a failed build it ends with a
\* failure status and no install is attempted; a failed install only adds a
\* warning, after which setup prints "Setup complete!" and ends with 0.
C25_SetupOrder ==
    /\ \A i, j \in DOMAIN sout : i < j => SetupRank(sout[i]) < SetupRank(sout[j])
    /\ Ran("make all") => Ran("check_dependencies") /\ missing_deps(senv) = <<>>
    /\ Ran("make install-deps") => Ran("make all") /\ senv.makeAll
    /\ spc = "exit" =>
           /\ Ran("check_dependencies")
           /\ missing_deps(senv) # <<>> => sstatus = 1 /\ ~Ran("make all")
           /\ (missing_deps(senv) = <<>> /\ ~senv.makeAll)
                  => sstatus = 1 /\ Ran("make all") /\ ~Ran("make install-deps")
           /\ (missing_deps(senv) = <<>> /\ senv.makeAll)
                  => /\ sstatus = 0
                     /\ Ran("make install-deps")
                     /\ sout[Len(sout)] = "Setup complete!"
                     /\ Ran("Warning: Python dependencies installation failed")
                            <=> ~senv.installDeps
           /\ sstatus = 0 <=> Ran("Setup complete!")

\* C25 witness: every dependency was found, the build succeeded, the Python
\* install failed, and setup ended with "Setup complete!" and status 0.
C25_Witness ==
    /\ spc = "exit" /\ sstatus = 0
    /\ ~senv.installDeps
    /\ Ran("Warning: Python dependencies installation failed")
    /\ sout[Len(sout)] = "Setup complete!"

InBounds(touched, m) ==
    \A t \in touched : t[2] \in 0 .. m.rows - 1 /\ t[3] \in 0 .. m.cols - 1

NoInterior(m, size) == m.rows <= 2 * (size \div 2) \/ m.cols <= 2 * (size \div 2)

AllZero(call, m) ==
    /\ call.status = "ok"
    /\ call.result.rows = m.rows /\ call.result.cols = m.cols
    /\ \A i \in 0 .. m.rows - 1, j \in 0 .. m.cols - 1 :
           call.result.data[i][j] = <<0>>

\* C26 as stated: neither function indexes an element outside the image,
\* and on an image with rows <= 2*(size/2) or cols <= 2*(size/2) neither
\* convolves any pixel and both return an all-zero image of the input's size
\* without an error.
C26_NoPixelConvolved ==
    /\ (gpc = "ready" /\ out2d.status # "none" /\ ~empty(input)) =>
           /\ InBounds(out2d.touched, input)
           /\ NoInterior(input, kernelSize) =>
                  out2d.touched = {} /\ AllZero(out2d, input)
    /\ (gpc = "ready" /\ outSep.status # "none" /\ ~empty(input)) =>
           /\ InBounds(outSep.touched, input)
           /\ NoInterior(input, kernelSize) =>
                  outSep.touched = {} /\ AllZero(outSep, input)

\* C26: neither function indexes an element outside the image.  On an image
\* with rows <= 2*(size/2) or cols <= 2*(size/2) both return an all-zero
\* image of the input's size without an error; applyConvolution then visits
\* no pixel, and applySeparableConvolution writes no output pixel from a sum
\* that read the image: it runs the horizontal pass only if cols is large
\* enough and the vertical pass only if rows is, never both.
C26_InBounds ==
    /\ (gpc = "ready" /\ out2d.status # "none" /\ ~empty(input)) =>
           /\ InBounds(out2d.touched, input)
           /\ NoInterior(input, kernelSize) =>
                  out2d.touched = {} /\ AllZero(out2d, input)
    /\ (gpc = "ready" /\ outSep.status # "none" /\ ~empty(input)) =>
           /\ InBounds(outSep.touched, input)
           /\ NoInterior(input, kernelSize) =>
                  /\ AllZero(outSep, input)
                  /\ (\E t \in outSep.touched : t[1] = "floatInput")
                         <=> input.cols > 2 * (kernelSize \div 2)
                  /\ (\E t \in outSep.touched : t[1] = "output")
                         <=> input.rows > 2 * (kernelSize \div 2)

\* C26 witness: both functions ran on an image one row short of an interior
\* whose samples are not zero: applyConvolution visited nothing, the
\* separable function ran its horizontal pass, and both results are zero.
C26_Witness ==
    /\ BothApplied /\ sigma > 0 /\ kernelSize >= 3
    /\ input.rows = 2 * (kernelSize \div 2) /\ input.cols > 2 * (kernelSize \div 2)
    /\ \A i \in 0 .. input.rows - 1, j \in 0 .. input.cols - 1 :
           GrayInput(input)[i][j] > 0
    /\ out2d.touched = {}
    /\ <<"floatInput", 0, 0>> \in outSep.touched
    /\ <<"floatInput", input.rows - 1, input.cols - 1>> \in outSep.touched
    /\ AllZero(out2d, input) /\ AllZero(outSep, input)

AssessmentResults ==
    {"UNSHARP_MASK", "BILATERAL_DENOISE", "CLAHE_ENHANCE", "EDGE_ENHANCE"}

\* C27: quality assessment returns Unsharp-Mask, Bilateral-Denoise,
\* CLAHE-Enhance or Edge-Enhance, never Gaussian-Blur or Laplacian-Sharpen;
\* so a run of main() applies Laplacian-Sharpen only on the manual path with
\* the filter argument laplacian, and an auto run never applies
\* Gaussian-Blur.
C27_AssessmentRange ==
    mpc # "api" =>
        /\ Assessed => selectedFilter \in AssessmentResults
        /\ routine.name = "applyLaplacianSharpen" =>
               ~autoAssess /\ argc > 3 /\ argv[3] = "laplacian"
        /\ (autoAssess /\ routine # NoRoutine) =>
               /\ routine.name # "applyGaussianBlur"
               /\ routine = Routine(Dispatch(Decide(metrics)))

\* C27 witness: laplacian was named together with auto, and the run applied
\* the Edge-Enhance filter the assessment returned.
C27_Witness ==
    /\ mpc = "processed" /\ Assessed
    /\ argc = 5 /\ argv[3] = "laplacian" /\ argv[4] = "auto"
    /\ routine.name = "applyEdgeEnhance"

\* The grayscale samples of the size x size window centred on p.
Window(m, size, p) ==
    {GrayInput(m)[p[1] - size \div 2 + ki][p[2] - size \div 2 + kj] :
        ki \in 0 .. size - 1, kj \in 0 .. size - 1}

\* C28: every interior pixel of the result of applyConvolution lies between
\* the smallest and the largest input intensity of the size x size window
\* centred on it; on a constant image of intensity c it is c.
C28_ConvexCombination ==
    (gpc = "ready" /\ out2d.status = "ok") =>
        \A p \in Interior(input, kernelSize) :
            \A lo, hi \in Window(input, kernelSize, p) :
                ((\A w \in Window(input, kernelSize, p) : lo <= w /\ w <= hi))
                    => /\ lo <= out2d.result.data[p[1]][p[2]][1]
                       /\ out2d.result.data[p[1]][p[2]][1] <= hi

=============================================================================
